---- MODULE Spec2Model ----
(***************************************************************************)
(* Model of the credential-and-session authentication service             *)
(* (app/auth.py, app/routers/auth_router.py, app/main.py, app/models.py,  *)
(* app/schemas.py, app/config.py, app/database.py).                        *)
(*                                                                         *)
(* State: the two tables (users, sessions), the clock, the one setting    *)
(* the session logic reads, the signup requests that have committed their *)
(* account and not yet created their session, the tokens drawn so far,    *)
(* the data-access handles that are open, and the most recent response.   *)
(*                                                                         *)
(* Granularity.  Every handler body is a straight run of synchronous      *)
(* calls; the only points at which another request can observe an         *)
(* intermediate state are the database commits.  login, logout and the    *)
(* guarded routes commit at most once, so each is one action.  signup     *)
(* commits twice (the account, then the session), so it is two actions    *)
(* with the request held in `inflight` between them.                      *)
(*                                                                         *)
(* Abstractions.  Time is counted in hours.  An email is a sequence of    *)
(* characters, all taken to pass EmailStr.  A password is a record of its *)
(* text and its length.  The columns users.created_at and the surrogate   *)
(* key sessions.id are left out: no code path reads them.  Of the cookie  *)
(* attributes only name, value and Max-Age are kept.                      *)
(* PasswordHasher.hash salts at random; one salt value stands for it.     *)
(* secrets.token_hex(32) draws 256 random bits.  `issued` records the      *)
(* draws.  Where rng_repeats is FALSE a draw is any value never drawn      *)
(* before (Spec and the specifications built on it); where it is TRUE a    *)
(* draw is any value at all (SpecAnyDraw).                                 *)
(*                                                                         *)
(* Handles.  get_db opens one handle per request and closes it when the    *)
(* handler has left.  In Spec a handler runs within one action (signup     *)
(* within two, its handle being the entry in `inflight`), so `handles`     *)
(* stays empty there; SpecDb follows each handle from get_db's open to its *)
(* close, whatever way the handler leaves.                                 *)
(***************************************************************************)
EXTENDS Integers, Sequences, FiniteSets, TLC

(* ---------------------------------------------------------------- bounds *)
MaxTime == 2
MaxExpireHours == 1
MaxHandles == 2

(* ------------------------------------------------------- program constants *)
MinPasswordLen == 8
MaxPasswordLen == 128
SecondsPerHour == 3600

(* ------------------------------------------------------------ input values *)
Tokens == {"t1", "t2"}

NoCookie == "<none>"
EmptyCookie == ""
BadCookie == "not-a-token"
CookieValues == {NoCookie, EmptyCookie, BadCookie} \cup Tokens

RawEmails == {<<"a">>, <<"A">>, <<"b">>}

PwOk == [text |-> "p", len |-> 8]
PwShort == [text |-> "s", len |-> 7]
PwLong == [text |-> "l", len |-> 129]
Passwords == {PwOk, PwShort, PwLong}

(* The longest password the validator lets through, and the passwords of   *)
(* the specification that runs signup alone.                               *)
PwMax == [text |-> "m", len |-> 128]
SignupPasswords == Passwords \cup {PwMax}

Salts == {"s1"}

VARIABLES users, sessions, now, session_expire_hours, inflight, issued, last,
          rng_repeats, handles

vars == <<users, sessions, now, session_expire_hours, inflight, issued, last,
          rng_repeats, handles>>

(* ------------------------------------------------------------ pure helpers *)
LowerChar(c) ==
    CASE c = "A" -> "a"
      [] c = "B" -> "b"
      [] OTHER -> c

(* Faulty variant: the email is stored as sent. *)
LowerNone(e) == e

Lower(e) == [i \in 1..Len(e) |-> LowerChar(e[i])]

First(S) == IF S = {} THEN {} ELSE {CHOOSE x \in S : TRUE}

Truthy(c) == c # NoCookie /\ c # EmptyCookie

(* Argon2: the stored string carries the algorithm, the salt and the digest. *)
hash_password(password, salt) ==
    [alg |-> "argon2id", salt |-> salt, digest |-> <<salt, password.text, password.len>>]

(* PasswordHasher.verify looks the algorithm up from the head of the string *)
(* (InvalidHashError when it is none), then has the library decode and      *)
(* check the rest: VerifyMismatchError when the digest differs,             *)
(* VerificationError for every other failure, such as a string that cannot  *)
(* be decoded.                                                              *)
WellFormedHash(h) == h.alg = "argon2id"

Decodable(h) == h.digest # <<>>

PhVerify(h, password) ==
    IF ~WellFormedHash(h) THEN "InvalidHashError"
    ELSE IF ~Decodable(h) THEN "VerificationError"
    ELSE IF h.digest = <<h.salt, password.text, password.len>> THEN "ok"
    ELSE "VerifyMismatchError"

(* What a call of verify_password ends in: "True", "False", or the          *)
(* exception that leaves it.                                                *)
verify_password_outcome(password, h) ==
    LET r == PhVerify(h, password)
    IN IF r = "ok" THEN "True"
       ELSE IF r \in {"VerifyMismatchError", "InvalidHashError"} THEN "False"
       ELSE r

(* Faulty variant: every password verifies. *)
verify_password_always(password, h) == TRUE

verify_password(password, h) == verify_password_outcome(password, h) = "True"

(* Faulty variant: `<=` for `<` at the lower limit. *)
validate_password_exclusive(v) ==
    IF v.len <= MinPasswordLen THEN "Password must be at least 8 characters"
    ELSE IF v.len > MaxPasswordLen THEN "Password too long"
    ELSE "ok"

validate_password(v) ==
    IF v.len < MinPasswordLen THEN "Password must be at least 8 characters"
    ELSE IF v.len > MaxPasswordLen THEN "Password too long"
    ELSE "ok"

(* ------------------------------------------------------------------ tables *)
UserByEmail(email) == First({u \in users : u.email = email})

(* Faulty variant: the filter on the id is missing. *)
UserByIdAny(id) == First(users)

UserById(id) == First({u \in users : u.id = id})

NextUserId ==
    IF users = {} THEN 1
    ELSE 1 + (CHOOSE m \in {u.id : u \in users} : \A u \in users : u.id <= m)

(* Faulty variant: no unique index on users.email. *)
EmailUniqueOff(email) == TRUE

EmailUniqueOk(email) == \A u \in users : u.email # email

(* Faulty variant: no unique index on sessions.session_id. *)
SessionIdUniqueOff(sid) == TRUE

SessionIdUniqueOk(sid) == \A s \in sessions : s.session_id # sid

generate_session_id == IF rng_repeats THEN Tokens ELSE Tokens \ issued

NewSession(sid, user_id) ==
    [session_id |-> sid, user_id |-> user_id, created_at |-> now,
     expires_at |-> now + session_expire_hours]

(* Faulty variants: expires_at >= now, and no filter on expires_at. *)
get_user_from_session_inclusive(sid) ==
    LET session == First({s \in sessions : s.session_id = sid /\ s.expires_at >= now})
    IN IF session = {} THEN {}
       ELSE UserById((CHOOSE s \in session : TRUE).user_id)

get_user_from_session_no_expiry(sid) ==
    LET session == First({s \in sessions : s.session_id = sid})
    IN IF session = {} THEN {}
       ELSE UserById((CHOOSE s \in session : TRUE).user_id)

get_user_from_session(sid) ==
    LET session == First({s \in sessions : s.session_id = sid /\ s.expires_at > now})
    IN IF session = {} THEN {}
       ELSE UserById((CHOOSE s \in session : TRUE).user_id)

(* Faulty variants: the DELETE filters on the owner, and result >= 0. *)
delete_session_by_user(table, sid) ==
    LET owners == {s.user_id : s \in {x \in table : x.session_id = sid}}
        kept == {s \in table : s.user_id \notin owners}
    IN [table |-> kept, ret |-> Cardinality(table) - Cardinality(kept) > 0]

delete_session_always_true(table, sid) ==
    LET kept == {s \in table : s.session_id # sid}
    IN [table |-> kept, ret |-> Cardinality(table) - Cardinality(kept) >= 0]

(* The table after the DELETE and the value returned (result > 0). *)
delete_session(table, sid) ==
    LET kept == {s \in table : s.session_id # sid}
    IN [table |-> kept, ret |-> Cardinality(table) - Cardinality(kept) > 0]

(* --------------------------------------------------------------- responses *)
NoSetCookie == <<>>
NoBody == <<>>
NoEmail == <<>>

set_session_cookie(sid) == <<"session_id", sid, session_expire_hours * SecondsPerHour>>

(* Faulty variant: the cleared cookie keeps the Max-Age of a set one. *)
clear_session_cookie_keep_age == <<"session_id", "", session_expire_hours * SecondsPerHour>>

clear_session_cookie == <<"session_id", "", 0>>

UserResponse(u) == <<u.id, u.email>>

(* One response, with the request it answers (op, email, cookie) and two    *)
(* facts about the handler's run: whether verify_password was called and    *)
(* what delete_session returned.  email is the request's email as sent,     *)
(* except in the answer signup gives after its second commit, where it is   *)
(* the handler's `email`, the lowercased one.                               *)
Response(op, email, cookie, status, detail, setc, body, vc, removed) ==
    [op |-> op, email |-> email, cookie |-> cookie, status |-> status, detail |-> detail,
     set_cookie |-> setc, body |-> body, verify_called |-> vc, removed |-> removed]

(* What the client receives. *)
Wire(r) == [status |-> r.status, detail |-> r.detail, set_cookie |-> r.set_cookie, body |-> r.body]

(* The Current-User Guard: the cookie, then Resolve session. *)
get_current_user(cookie) ==
    IF cookie = NoCookie THEN {} ELSE get_user_from_session(cookie)

Unauthenticated(op, cookie) ==
    Response(op, NoEmail, cookie, 401, "Not authenticated", NoSetCookie, NoBody, FALSE, FALSE)

get_current_user_info(cookie) ==
    LET user == get_current_user(cookie)
    IN IF user = {} THEN Unauthenticated("me", cookie)
       ELSE Response("me", NoEmail, cookie, 200, "", NoSetCookie,
                     UserResponse(CHOOSE u \in user : TRUE), FALSE, FALSE)

protected_route(cookie) ==
    LET user == get_current_user(cookie)
    IN IF user = {} THEN Unauthenticated("protected", cookie)
       ELSE LET u == CHOOSE x \in user : TRUE
            IN Response("protected", NoEmail, cookie, 200, "", NoSetCookie,
                        <<"This is a protected route", u.id, u.email>>, FALSE, FALSE)

(* ------------------------------------------------------------------ actions *)
InitTables ==
    /\ users = {}
    /\ sessions = {}
    /\ now = 0
    /\ session_expire_hours \in 0..MaxExpireHours
    /\ inflight = {}
    /\ issued = {}
    /\ handles = {}
    /\ last = Response("none", NoEmail, NoCookie, 0, "", NoSetCookie, NoBody, FALSE, FALSE)

Init == InitTables /\ rng_repeats = FALSE

Tick ==
    /\ now < MaxTime
    /\ now' = now + 1
    /\ UNCHANGED <<rng_repeats, handles, users, sessions, session_expire_hours, inflight, issued, last>>

(* Faulty variant: the new session replaces the account's earlier ones. *)
create_session_single(op, email, user, okStatus, vc) ==
    \E sid \in generate_session_id :
        /\ issued' = issued \cup {sid}
        /\ sessions' = {s \in sessions : s.user_id # user.id} \cup {NewSession(sid, user.id)}
        /\ last' = Response(op, email, NoCookie, okStatus, "",
                            set_session_cookie(sid), UserResponse(user), vc, FALSE)

(* create_session as called from a handler: the draw, the insert and the    *)
(* commit, then the cookie and the response.  A duplicate session_id        *)
(* violates the unique index; the IntegrityError leaves the handler as 500. *)
create_session(op, email, user, okStatus, vc) ==
    \E sid \in generate_session_id :
        /\ issued' = issued \cup {sid}
        /\ IF SessionIdUniqueOk(sid)
           THEN /\ sessions' = sessions \cup {NewSession(sid, user.id)}
                /\ last' = Response(op, email, NoCookie, okStatus, "",
                                    set_session_cookie(sid), UserResponse(user), vc, FALSE)
           ELSE /\ sessions' = sessions
                /\ last' = Response(op, email, NoCookie, 500, "Internal Server Error",
                                    NoSetCookie, NoBody, vc, FALSE)

(* POST /auth/signup up to its first commit: validation, then the INSERT.   *)
SignupInsert(rawEmail, password, salt) ==
    LET email == Lower(rawEmail)
        check == validate_password(password)
    IN IF check # "ok"
       THEN /\ last' = Response("signup", rawEmail, NoCookie, 422, check,
                                NoSetCookie, NoBody, FALSE, FALSE)
            /\ UNCHANGED <<rng_repeats, handles, users, sessions, now, session_expire_hours, inflight, issued>>
       ELSE IF ~EmailUniqueOk(email)
       THEN /\ last' = Response("signup", rawEmail, NoCookie, 409, "Email already registered",
                                NoSetCookie, NoBody, FALSE, FALSE)
            /\ UNCHANGED <<rng_repeats, handles, users, sessions, now, session_expire_hours, inflight, issued>>
       ELSE /\ users' = users \cup {[id |-> NextUserId, email |-> email,
                                     password_hash |-> hash_password(password, salt)]}
            /\ inflight' = inflight \cup {[user_id |-> NextUserId]}
            /\ UNCHANGED <<rng_repeats, handles, sessions, now, session_expire_hours, issued, last>>

(* POST /auth/signup from its first commit on: the session and the cookie.  *)
SignupCreateSession(r) ==
    /\ r \in inflight
    /\ inflight' = inflight \ {r}
    /\ LET user == CHOOSE u \in users : u.id = r.user_id
       IN create_session("signup", user.email, user, 201, FALSE)
    /\ UNCHANGED <<rng_repeats, handles, users, now, session_expire_hours>>

(* POST /auth/login.  `not user or not verify_password(...)` evaluates the  *)
(* second operand only when an account was found; an exception leaving      *)
(* verify_password leaves the handler as a 500.                             *)
Login(rawEmail, password) ==
    LET email == Lower(rawEmail)
        user == UserByEmail(email)
    IN IF user = {}
       THEN /\ last' = Response("login", rawEmail, NoCookie, 401, "Invalid credentials",
                                NoSetCookie, NoBody, FALSE, FALSE)
            /\ UNCHANGED <<rng_repeats, handles, users, sessions, now, session_expire_hours, inflight, issued>>
       ELSE LET u == CHOOSE x \in user : TRUE
            IN IF verify_password_outcome(password, u.password_hash) \notin {"True", "False"}
               THEN /\ last' = Response("login", rawEmail, NoCookie, 500, "Internal Server Error",
                                        NoSetCookie, NoBody, TRUE, FALSE)
                    /\ UNCHANGED <<rng_repeats, handles, users, sessions, now, session_expire_hours, inflight, issued>>
               ELSE IF ~verify_password(password, u.password_hash)
               THEN /\ last' = Response("login", rawEmail, NoCookie, 401, "Invalid credentials",
                                        NoSetCookie, NoBody, TRUE, FALSE)
                    /\ UNCHANGED <<rng_repeats, handles, users, sessions, now, session_expire_hours, inflight, issued>>
               ELSE /\ create_session("login", rawEmail, u, 200, TRUE)
                    /\ UNCHANGED <<rng_repeats, handles, users, now, session_expire_hours, inflight>>

(* POST /auth/logout. *)
Logout(cookie) ==
    LET d == IF Truthy(cookie) THEN delete_session(sessions, cookie)
             ELSE [table |-> sessions, ret |-> FALSE]
    IN /\ sessions' = d.table
       /\ last' = Response("logout", NoEmail, cookie, 200, "Logged out successfully",
                           clear_session_cookie, NoBody, FALSE, d.ret)
       /\ UNCHANGED <<rng_repeats, handles, users, now, session_expire_hours, inflight, issued>>

(* Faulty variant: resolving deletes the row it finds expired. *)
MePurgesExpired(cookie) ==
    /\ last' = get_current_user_info(cookie)
    /\ sessions' = {s \in sessions : ~(s.session_id = cookie /\ s.expires_at <= now)}
    /\ UNCHANGED <<rng_repeats, handles, users, now, session_expire_hours, inflight, issued>>

(* GET /auth/me. *)
Me(cookie) ==
    /\ last' = get_current_user_info(cookie)
    /\ UNCHANGED <<rng_repeats, handles, users, sessions, now, session_expire_hours, inflight, issued>>

(* GET /protected. *)
Protected(cookie) ==
    /\ last' = protected_route(cookie)
    /\ UNCHANGED <<rng_repeats, handles, users, sessions, now, session_expire_hours, inflight, issued>>

Next ==
    \/ Tick
    \/ \E e \in RawEmails, p \in Passwords, s \in Salts : SignupInsert(e, p, s)
    \/ \E r \in inflight : SignupCreateSession(r)
    \/ \E e \in RawEmails, p \in Passwords : Login(e, p)
    \/ \E c \in CookieValues : Logout(c)
    \/ \E c \in CookieValues : Me(c)
    \/ \E c \in CookieValues : Protected(c)

Spec == Init /\ [][Next]_vars

(* Signup alone, with passwords at both limits of the validator. *)
NextSignup ==
    \/ Tick
    \/ \E e \in RawEmails, p \in SignupPasswords, s \in Salts : SignupInsert(e, p, s)
    \/ \E r \in inflight : SignupCreateSession(r)

SpecSignup == Init /\ [][NextSignup]_vars

(* The same requests, with the random source free to return any value, one *)
(* it returned before included.                                            *)
InitAnyDraw == InitTables /\ rng_repeats = TRUE

SpecAnyDraw == InitAnyDraw /\ [][Next]_vars

(* ---------------------------------------------------------- verify_password *)
(* verify_password called on its own, with a password and a stored value:   *)
(* the credential of an account, a string that names no Argon2 variant, or  *)
(* a string with the Argon2 head whose rest cannot be decoded.              *)
MalformedHashes ==
    {[alg |-> "plaintext", salt |-> "", digest |-> <<>>],
     [alg |-> "argon2id", salt |-> "s1", digest |-> <<>>]}

StoredValues == {u.password_hash : u \in users} \cup MalformedHashes

(* How a call of a domain function ended: "return" with the value in body,  *)
(* or the name of the exception that left it.                               *)
Outcome(op, how, value) ==
    Response(op, NoEmail, NoCookie, 0, how, NoSetCookie, value, FALSE, FALSE)

VerifyPassword(password, h) ==
    LET v == verify_password_outcome(password, h)
    IN /\ last' = IF v = "True" THEN Outcome("verify_password", "return", <<TRUE>>)
                  ELSE IF v = "False" THEN Outcome("verify_password", "return", <<FALSE>>)
                  ELSE Outcome("verify_password", v, NoBody)
       /\ UNCHANGED <<rng_repeats, handles, users, sessions, now, session_expire_hours, inflight, issued>>

NextVerify ==
    \/ Tick
    \/ \E e \in RawEmails, p \in Passwords, s \in Salts : SignupInsert(e, p, s)
    \/ \E p \in Passwords, h \in StoredValues : VerifyPassword(p, h)

SpecVerify == Init /\ [][NextVerify]_vars

(* -------------------------------------------------- maintenance operations *)
(* auth.py has two operations that no route calls: delete_user_sessions and *)
(* cleanup_expired_sessions.  SpecMaint lets them run between the requests. *)

(* Faulty variant: the DELETE addresses the accounts table. *)
delete_user_sessions_wrong_table(user_id) ==
    LET kept == {u \in users : u.id # user_id}
    IN [users |-> kept, sessions |-> sessions,
        result |-> Cardinality(users) - Cardinality(kept)]

(* The tables after the DELETE and the commit, and the count returned. *)
delete_user_sessions(user_id) ==
    LET kept == {s \in sessions : s.user_id # user_id}
    IN [users |-> users, sessions |-> kept,
        result |-> Cardinality(sessions) - Cardinality(kept)]

(* The names bound in cleanup_expired_sessions when its return statement    *)
(* runs, and the name that statement reads.                                 *)
CleanupLocals == {"db", "result"}
CleanupReturnName == "resultss"

(* Faulty variant: `<` for `<=` in the DELETE's filter. *)
cleanup_expired_sessions_strict ==
    LET kept == {s \in sessions : ~(s.expires_at < now)}
    IN [users |-> users, sessions |-> kept,
        result |-> Cardinality(sessions) - Cardinality(kept),
        how |-> IF CleanupReturnName \in CleanupLocals THEN "return" ELSE "NameError"]

(* The tables after the DELETE and the commit, the count in `result`, and   *)
(* how the return statement that follows the commit ends.                   *)
cleanup_expired_sessions ==
    LET kept == {s \in sessions : ~(s.expires_at <= now)}
    IN [users |-> users, sessions |-> kept,
        result |-> Cardinality(sessions) - Cardinality(kept),
        how |-> IF CleanupReturnName \in CleanupLocals THEN "return" ELSE "NameError"]

DeleteUserSessions(user_id) ==
    LET d == delete_user_sessions(user_id)
    IN /\ users' = d.users
       /\ sessions' = d.sessions
       /\ last' = Outcome("delete_user_sessions", "return", <<d.result>>)
       /\ UNCHANGED <<rng_repeats, handles, now, session_expire_hours, inflight, issued>>

CleanupExpiredSessions ==
    LET c == cleanup_expired_sessions
    IN /\ users' = c.users
       /\ sessions' = c.sessions
       /\ last' = Outcome("cleanup_expired_sessions", c.how,
                          IF c.how = "return" THEN <<c.result>> ELSE NoBody)
       /\ UNCHANGED <<rng_repeats, handles, now, session_expire_hours, inflight, issued>>

(* The ids a caller can pass: those of the accounts and one of no account. *)
UserIds == {u.id : u \in users} \cup {NextUserId}

NextMaint ==
    \/ Next
    \/ \E id \in UserIds : DeleteUserSessions(id)
    \/ CleanupExpiredSessions

SpecMaint == Init /\ [][NextMaint]_vars

(* ------------------------------------------------------------------ get_db *)
(* One handle per request: get_db opens it and yields it, the handler runs  *)
(* and leaves (by returning, by raising HTTPException, or by an error it    *)
(* does not handle), and get_db's finally clause closes it.  A handle is    *)
(* [id, route, at]; `at` is "yielded" while the handler runs and the way    *)
(* the handler left afterwards.                                             *)
HandleIds == 1..MaxHandles

Routes == {"signup", "login", "logout"}

(* The ways a handler leaves: signup raises 409, login raises 401, logout   *)
(* raises nothing of its own; any of them can meet a storage or runtime     *)
(* error.                                                                   *)
Exits(route) ==
    IF route = "signup" THEN {"return", "409", "error"}
    ELSE IF route = "login" THEN {"return", "401", "error"}
    ELSE {"return", "error"}

(* Faulty variant: db.close() after the yield, with no try/finally. *)
get_db_closes_after_return(at) == at = "return"

(* try: yield db / finally: db.close() runs whichever way the handler left. *)
get_db_closes(at) == at # "yielded"

GetDbOpen(id, route) ==
    /\ \A h \in handles : h.id # id
    /\ handles' = handles \cup {[id |-> id, route |-> route, at |-> "yielded"]}
    /\ UNCHANGED <<rng_repeats, users, sessions, now, session_expire_hours, inflight, issued, last>>

HandlerExit(h, how) ==
    /\ h \in handles
    /\ h.at = "yielded"
    /\ how \in Exits(h.route)
    /\ handles' = (handles \ {h}) \cup {[h EXCEPT !.at = how]}
    /\ UNCHANGED <<rng_repeats, users, sessions, now, session_expire_hours, inflight, issued, last>>

GetDbClose(h) ==
    /\ h \in handles
    /\ get_db_closes(h.at)
    /\ handles' = handles \ {h}
    /\ last' = Outcome("get_db", "closed", <<h.route, h.at>>)
    /\ UNCHANGED <<rng_repeats, users, sessions, now, session_expire_hours, inflight, issued>>

NextDb ==
    \/ \E id \in HandleIds, route \in Routes : GetDbOpen(id, route)
    \/ \E h \in handles, how \in {"return", "409", "401", "error"} : HandlerExit(h, how)
    \/ \E h \in handles : GetDbClose(h)

(* A request that has begun runs on: its handler leaves, and the generator  *)
(* is then resumed.                                                         *)
RequestRuns(id) ==
    \E h \in handles : h.id = id /\
        ((\E how \in {"return", "409", "401", "error"} : HandlerExit(h, how)) \/ GetDbClose(h))

SpecDb == Init /\ [][NextDb]_vars /\ \A id \in HandleIds : WF_vars(RequestRuns(id))

(* ------------------------------------------------------------------ claims *)
(* Case folding as the claims mean it, written apart from Lower. *)
CaseFold(e) ==
    [i \in DOMAIN e |->
        IF e[i] \in {"a", "A"} THEN "a" ELSE IF e[i] \in {"b", "B"} THEN "b" ELSE e[i]]

RowsOf(sid) == {s \in sessions : s.session_id = sid}

(* A row is unexpired while the clock is before its creation time plus the lifetime. *)
Unexpired(s) == now < s.created_at + session_expire_hours

Rejected401 == [status |-> 401, detail |-> "Not authenticated", set_cookie |-> NoSetCookie, body |-> NoBody]

(* C1: in every reachable state, whatever the order and interleaving of the  *)
(* signup requests, no two accounts have emails that are equal once          *)
(* lowercased.                                                               *)
C1_OneAccountPerEmail ==
    \A u \in users : \A v \in users : CaseFold(u.email) = CaseFold(v.email) => u = v

(* A signup of "A" was answered 409 while the signup of "a" was still        *)
(* between its two commits.                                                  *)
C1_Witness ==
    /\ \E r \in inflight : \E u \in users : u.id = r.user_id /\ u.email = <<"a">>
    /\ last.op = "signup" /\ last.email = <<"A">> /\ last.status = 409

(* C2: at every time, Resolve session on a token yields the owning account   *)
(* exactly when a row with that token exists and the clock is strictly       *)
(* before the row's creation time plus session_expire_hours; otherwise it    *)
(* yields absent.                                                            *)
C2_ResolveIffUnexpired ==
    \A c \in CookieValues :
        get_user_from_session(c) =
            {u \in users : \E s \in RowsOf(c) : Unexpired(s) /\ u.id = s.user_id}

(* At exactly creation time plus lifetime, /auth/me with the token got 401. *)
C2_Witness ==
    /\ session_expire_hours > 0
    /\ last.op = "me" /\ last.status = 401
    /\ \E s \in RowsOf(last.cookie) : now = s.created_at + session_expire_hours

(* C3: a guarded route answers 401, with no account in the body, whenever    *)
(* the request has no cookie, a cookie that matches no session row, or the   *)
(* token of an expired row; the answer is the same in the three cases.       *)
C3_GuardRejects ==
    \A c \in CookieValues :
        (c = NoCookie \/ RowsOf(c) = {} \/ \A s \in RowsOf(c) : ~Unexpired(s))
            => /\ Wire(get_current_user_info(c)) = Rejected401
               /\ Wire(protected_route(c)) = Rejected401

(* /protected was asked with the token of a row that has expired, while      *)
(* another row is still live.                                                *)
C3_Witness ==
    /\ last.op = "protected" /\ last.status = 401
    /\ \E s \in RowsOf(last.cookie) : ~Unexpired(s)
    /\ \E s \in sessions : Unexpired(s)

C4_State ==
    /\ \A s \in sessions :
         Unexpired(s) =>
            \E u \in users :
               /\ u.id = s.user_id
               /\ \A v \in users : v.id = u.id => v = u
               /\ u.email = CaseFold(u.email)
               /\ Wire(get_current_user_info(s.session_id)) =
                     [status |-> 200, detail |-> "", set_cookie |-> NoSetCookie,
                      body |-> <<u.id, u.email>>]
               /\ Wire(protected_route(s.session_id)) =
                     [status |-> 200, detail |-> "", set_cookie |-> NoSetCookie,
                      body |-> <<"This is a protected route", u.id, u.email>>]
    /\ (last.op \in {"signup", "login"} /\ last.status \in {200, 201}) =>
            \E u \in users :
               /\ u.email = CaseFold(last.email)
               /\ last.body = <<u.id, u.email>>
               /\ \A s \in RowsOf(last.set_cookie[2]) : s.user_id = u.id

C4_Step == \A s \in sessions : s \in sessions' \/ Logout(s.session_id)

(* C4: the token in the cookie of a successful signup or login of account A  *)
(* is bound to A; a row leaves the table only by a logout with its token and *)
(* is never rewritten; and while a row is unexpired both guarded routes      *)
(* answer its token with 200 and the id and lowercase email of its account.  *)
C4_TokenResolvesToOwner == []C4_State /\ [][C4_Step]_vars

(* /auth/me answered 200 with the second account's id for that account's     *)
(* token while the first account holds a live session too.                   *)
C4_Witness ==
    /\ last.op = "me" /\ last.status = 200 /\ last.body[1] = 2
    /\ \E s \in RowsOf(last.cookie) : s.user_id = 2 /\ Unexpired(s)
    /\ \E s \in sessions : s.user_id = 1 /\ Unexpired(s)

(* The password does not match the one the account was registered with. *)
WrongPassword(u, p) == u.password_hash # hash_password(p, u.password_hash.salt)

InvalidCredentials ==
    [status |-> 401, detail |-> "Invalid credentials", set_cookie |-> NoSetCookie, body |-> NoBody]

(* C5: a login with an unregistered email and a login with a registered      *)
(* email and a wrong password get the same answer, 401 "Invalid              *)
(* credentials" with no cookie, and neither adds a session row.              *)
C5_LoginFailuresAlike ==
    [][\A e \in RawEmails : \A p \in Passwords :
        (/\ last'.op = "login" /\ last'.email = e
         /\ \A u \in users : u.email = CaseFold(e) => WrongPassword(u, p)
         /\ Login(e, p))
            => /\ Wire(last') = InvalidCredentials
               /\ sessions' = sessions
               /\ issued' = issued]_vars

(* A login with a wrong password for a registered account was answered 401   *)
(* while that account holds a session.                                       *)
C5_Witness ==
    /\ last.op = "login" /\ last.status = 401
    /\ \E u \in users : u.email = CaseFold(last.email) /\ \E s \in sessions : s.user_id = u.id

(* C6: every login calls verify_password before it answers, whether or not   *)
(* an account was found.                                                     *)
C6_LoginAlwaysVerifies == last.op = "login" => last.verify_called

(* C7: a signup whose lowercased email is already registered leaves the      *)
(* accounts, the sessions, the issued tokens and the signups in flight as    *)
(* they were and sets no cookie; when its body passes validation, and so     *)
(* reaches the handler, the answer is 409 "Email already registered".        *)
C7_ConflictChangesNothing ==
    [][\A e \in RawEmails :
        (/\ (last' # last /\ last'.op = "signup" /\ last'.email = e) \/ users' # users
         /\ \E u \in users : u.email = CaseFold(e))
            => \A p \in Passwords : \A salt \in Salts :
                  SignupInsert(e, p, salt)
                     => /\ users' = users
                        /\ sessions' = sessions
                        /\ issued' = issued
                        /\ inflight' = inflight
                        /\ last'.set_cookie = NoSetCookie
                        /\ last'.body = NoBody
                        /\ (p.len >= 8 /\ p.len <= 128) =>
                              (last'.status = 409 /\ last'.detail = "Email already registered")]_vars

(* A signup of "A" was answered 409; "a" is registered and holds a session.  *)
C7_Witness ==
    /\ last.op = "signup" /\ last.email = <<"A">> /\ last.status = 409
    /\ \E u \in users : u.email = <<"a">> /\ \E s \in sessions : s.user_id = u.id
    /\ inflight = {}

(* C8: a logout with cookie t removes the rows whose token is t and no       *)
(* other; after it Resolve session yields absent for t and the guarded       *)
(* routes answer 401; and a token whose row is gone never has a row again.   *)
C8_LogoutRemovesOnlyThatSession ==
    [][/\ \A c \in CookieValues :
            (last'.op = "logout" /\ last'.cookie = c /\ Logout(c))
                      => /\ sessions' = {s \in sessions : s.session_id # c}
                         /\ users' = users
                         /\ (get_user_from_session(c))' = {}
                         /\ (Wire(get_current_user_info(c)))' = Rejected401
                         /\ (Wire(protected_route(c)))' = Rejected401
       /\ \A t \in issued : RowsOf(t) = {} => (RowsOf(t))' = {}]_vars

(* A logout removed the row of its token, and an unexpired row of the same   *)
(* account is still in the table.                                            *)
C8_Witness ==
    /\ last.op = "logout" /\ last.removed /\ RowsOf(last.cookie) = {}
    /\ Cardinality(users) = 2
    /\ \E s \in sessions : Unexpired(s)

(* C9: whatever the cookie and the state, a logout is answered 200 "Logged   *)
(* out successfully" with the session_id cookie set to the empty value and   *)
(* Max-Age 0.                                                                *)
C9_LogoutAlwaysSucceeds ==
    last.op = "logout" =>
        /\ last.status = 200
        /\ last.detail = "Logged out successfully"
        /\ last.set_cookie = <<"session_id", "", 0>>

(* A second logout with a token whose row the first had removed. *)
C9_Witness ==
    /\ last.op = "logout" /\ last.cookie \in issued /\ ~last.removed
    /\ last.status = 200

(* C10: on every reachable session table and every token, delete_session     *)
(* called on a token that has a row returns true and removes that one row,   *)
(* called again returns false and removes nothing, and called on a token     *)
(* that has no row returns false and leaves the table as it was.             *)
C10_DeleteSessionIdempotent ==
    \A c \in CookieValues :
        LET d1 == delete_session(sessions, c)
            d2 == delete_session(d1.table, c)
        IN /\ RowsOf(c) # {} =>
                /\ d1.ret
                /\ Cardinality(d1.table) = Cardinality(sessions) - 1
                /\ d1.table = sessions \ RowsOf(c)
           /\ RowsOf(c) = {} => (~d1.ret /\ d1.table = sessions)
           /\ ~d2.ret
           /\ d2.table = d1.table

(* A logout whose delete_session returned true left one other row behind.    *)
C10_Witness ==
    /\ last.op = "logout" /\ last.removed
    /\ Cardinality(sessions) = 1

(* C11: a run of cleanup_expired_sessions removes exactly the rows whose     *)
(* expires_at is at or before the clock: every token that resolved before    *)
(* the run has its row and resolves to the same account after it, no row     *)
(* with expires_at at or before the clock is left, and no account is         *)
(* touched.                                                                  *)
C11_Step ==
    /\ sessions' \subseteq sessions
    /\ \A s \in sessions : (s \in sessions') <=> ~(s.expires_at <= now)
    /\ \A c \in CookieValues :
           get_user_from_session(c) # {} =>
               /\ RowsOf(c) \subseteq sessions'
               /\ get_user_from_session(c)' = get_user_from_session(c)
    /\ \A s \in sessions' : ~(s.expires_at <= now')
    /\ users' = users

C11_CleanupRemovesExpired ==
    [][(last'.op = "cleanup_expired_sessions" /\ CleanupExpiredSessions) => C11_Step]_vars

(* A cleanup has just run with one session expired and one not: a drawn      *)
(* token has no row, the other row is still there and resolves.              *)
C11_Witness ==
    /\ last.op = "cleanup_expired_sessions"
    /\ \E t \in issued : RowsOf(t) = {}
    /\ \E s \in sessions : get_user_from_session(s.session_id) # {}
    /\ \A s \in sessions : s.expires_at > now

(* C12: cleanup_expired_sessions completes normally and returns the number   *)
(* of rows it removed, 0 included.                                           *)
C12_CleanupReturnsCount ==
    last.op = "cleanup_expired_sessions" =>
        /\ last.detail = "return"
        /\ \E n \in 0..Cardinality(Tokens) : last.body = <<n>>

(* C13: a signup whose password is shorter than 8 or longer than 128         *)
(* characters is answered 422 before any domain logic runs and changes no    *)
(* account and no session; a signup whose password is exactly 8 or exactly   *)
(* 128 characters long, with an email no account has, stores the account     *)
(* and is answered 201 with the session cookie.                              *)
C13_Insert(e, p) ==
    /\ (p.len < 8 \/ p.len > 128) =>
           /\ last'.op = "signup" /\ last'.email = e /\ last'.status = 422
           /\ UNCHANGED <<users, sessions, inflight, issued>>
    /\ (p.len \in {8, 128} /\ \A u \in users : u.email # CaseFold(e)) =>
           \E u \in users' \ users :
               /\ users' = users \cup {u}
               /\ u.email = CaseFold(e)
               /\ verify_password(p, u.password_hash)
               /\ [user_id |-> u.id] \in inflight' \ inflight

C13_Finish(r) ==
    \E s \in sessions' \ sessions :
        /\ s.user_id = r.user_id
        /\ last'.op = "signup" /\ last'.status = 201
        /\ last'.set_cookie = <<"session_id", s.session_id, session_expire_hours * 3600>>
        /\ \E u \in users : u.id = r.user_id /\ last'.body = <<u.id, u.email>>

C14_VerifyNeverRaises ==
    [][\A p \in Passwords, h \in StoredValues :
           (VerifyPassword(p, h) /\ PhVerify(h, p) # "ok") =>
               last'.detail = "return" /\ last'.body = <<FALSE>>]_vars

(* C15: no operation (signup, login, logout, the guarded requests, delete    *)
(* session, delete all sessions of an account, delete expired sessions)      *)
(* removes an account or changes its id, email or credential: the set of     *)
(* accounts only grows, and only by the one account an accepted signup       *)
(* stores.                                                                   *)
C15_AccountsOnlyGrow ==
    [][users' # users =>
          /\ users \subseteq users'
          /\ Cardinality(users' \ users) = 1
          /\ \A u \in users' \ users : \A v \in users : v.id # u.id /\ v.email # u.email
          /\ \E e \in RawEmails, p \in Passwords, salt \in Salts :
                 validate_password(p) = "ok" /\ SignupInsert(e, p, salt)]_vars

(* delete_user_sessions has just removed the sessions of an account, which   *)
(* is still there, next to a second account.                                 *)
C15_Witness ==
    /\ last.op = "delete_user_sessions"
    /\ last.detail = "return" /\ last.body # <<0>>
    /\ Cardinality(users) = 2
    /\ \E u \in users : {s \in sessions : s.user_id = u.id} = {}

(* C16: every call of create_session stores a token that no earlier session, *)
(* live or deleted, has ever held, and no two session rows share a token.    *)
C16_TokensNeverReused ==
    /\ [](\A s \in sessions : \A t \in sessions : s.session_id = t.session_id => s = t)
    /\ [][\A s \in sessions' \ sessions : s.session_id \notin issued]_vars

(* C16, as the code has it: no two session rows share a token; a call of     *)
(* create_session stores a token that no live row holds, and a call whose    *)
(* draw is the token of a live row stores nothing and ends in a 500.         *)
C16_LiveTokensDistinct ==
    /\ [](\A s \in sessions : \A t \in sessions : s.session_id = t.session_id => s = t)
    /\ [][/\ \A s \in sessions' \ sessions : RowsOf(s.session_id) = {}
          /\ (last' # last /\ last'.status = 500) => sessions' = sessions]_vars

(* A login drew the token of a live session and was answered 500; the row    *)
(* that holds the token is the only one.                                     *)
C16_Witness ==
    /\ last.op = "login" /\ last.status = 500
    /\ Cardinality(sessions) = 1
    /\ \A s \in sessions : s.session_id \in issued

(* C17: every session row has expires_at strictly after created_at, for      *)
(* every value the integer setting session_expire_hours can take.            *)
C17_ExpiryAfterCreation ==
    \A s \in sessions : s.expires_at > s.created_at

(* C18: every handle get_db opens is closed in the end, whichever way the    *)
(* handler leaves: by returning, by the 409 or the 401 rejection, or by an   *)
(* unhandled storage or runtime error.                                       *)
HandleOpen(id) == \E h \in handles : h.id = id

C18_HandleReleased ==
    \A id \in HandleIds : HandleOpen(id) ~> ~HandleOpen(id)

(* The handle of a signup that left by an unhandled error has been closed,   *)
(* and no handle is open.                                                    *)
C18_Witness ==
    /\ last.op = "get_db" /\ last.detail = "closed"
    /\ last.body = <<"signup", "error">>
    /\ handles = {}

(* C19: resolving a session, in the guard of GET /auth/me and of             *)
(* GET /protected, changes neither the accounts nor the sessions, whether    *)
(* the token is valid, unknown or expired: an expired row is not removed     *)
(* and no expires_at is moved.                                               *)
C19_ResolveChangesNothing ==
    [][(last'.op \in {"me", "protected"} /\ \E c \in CookieValues : Me(c) \/ Protected(c)) =>
           /\ users' = users
           /\ sessions' = sessions
           /\ \A c \in CookieValues : get_user_from_session(c)' = get_user_from_session(c)]_vars

(* GET /auth/me with the token of an expired session was answered 401 and    *)
(* the expired row is still in the table.                                    *)
C19_Witness ==
    /\ last.op = "me" /\ last.status = 401
    /\ \E s \in sessions : s.session_id = last.cookie /\ s.expires_at <= now

(* C20: once a signup with email e and password p has stored its account,    *)
(* then after any logins, logouts and session cleanups, a login with p and   *)
(* any email whose lowercase form is that of e is answered 200 with the      *)
(* account, adds exactly one session, of that account, sets that session's   *)
(* token as the cookie and removes no session.                               *)
C20_Login(e, p) ==
    \A u \in users :
        (u.email = CaseFold(e) /\ \E salt \in Salts : u.password_hash = hash_password(p, salt)) =>
            /\ last'.status = 200
            /\ last'.body = <<u.id, u.email>>
            /\ sessions \subseteq sessions'
            /\ \E s \in sessions' \ sessions :
                   /\ sessions' = sessions \cup {s}
                   /\ s.user_id = u.id
                   /\ last'.set_cookie = <<"session_id", s.session_id, session_expire_hours * 3600>>

C20_LoginAfterSignupSucceeds ==
    [][\A e \in RawEmails, p \in Passwords :
           (last'.op = "login" /\ last'.email = e /\ Login(e, p)) => C20_Login(e, p)]_vars

(* The account signed up as "a" has logged in as "A" after its first        *)
(* session was removed: the login was answered 200 and the session it made   *)
(* is the only one.                                                          *)
C20_Witness ==
    /\ last.op = "login" /\ last.status = 200 /\ last.email = <<"A">>
    /\ \E u \in users : u.email = <<"a">> /\ last.body = <<u.id, u.email>>
    /\ \E s \in sessions : sessions = {s} /\ last.set_cookie[2] = s.session_id /\ s.created_at > 0
    /\ Cardinality(issued) = 2

====
